---------------------------- MODULE Spec2Model ----------------------------
(***************************************************************************)
(* A model of path-inspector's traversal-and-filter engine:                *)
(*   src/src/path_inspector/core.py   (FileNode, Inspector)                *)
(*   src/src/path_inspector/utils.py  (GitignoreMatcher, find_git_root)    *)
(*                                                                         *)
(* Text is a sequence of one-character strings, a file name is such a      *)
(* text, and a path is the sequence of its components below "/".  Nodes    *)
(* live in a heap (a sequence of records, a node's identity is its index)  *)
(* because the code shares FileNode objects by reference between the       *)
(* directory cache and the children lists.                                 *)
(***************************************************************************)
EXTENDS Integers, Sequences, FiniteSets, TLC

VARIABLES
    opts,      \* the Inspector's attributes                 (core.py 78-87)
    files,     \* the bytes of every regular file of the filesystem
    inputs,    \* the `paths` argument of inspect
    idx,       \* position of inspect's for loop in `paths` (1-based)
    heap,      \* the FileNode objects created so far
    cache,     \* dir_nodes_cache: absolute path -> node     (core.py 144)
    log,       \* the warnings logged so far
    rev,       \* whether the host lists directories in reversed order
    fault,     \* the directory the host fails on, and how, if any
    pc,        \* "loop" while inspect iterates, "done" once it returned
    result,    \* the list inspect returned (node ids), <<>> before
    gmatcher,  \* a GitignoreMatcher object: root_path and patterns (utils.py 26-28)
    added,     \* the last add_patterns call: its arguments and the patterns before it
    asked,     \* the last is_ignored call: its argument and its answer
    cli        \* a command-line run: its format, exit code and rendered document

\* the variables of a matcher exercised on its own
matcherVars == <<gmatcher, added, asked>>

vars == <<opts, files, inputs, idx, heap, cache, log, rev, fault, pc, result, gmatcher,
          added, asked, cli>>

-----------------------------------------------------------------------------
(* Bounds of the model *)

\* longest `paths` list given to inspect
MaxInputs == 2
\* largest max_depth option tried
MaxDepthOpt == 1
\* largest head / tail option tried
MaxLinesOpt == 2
\* longest file (in bytes) drawn for the content-loading runs
MaxFileLen == 3

-----------------------------------------------------------------------------
(* Text *)

Min(a, b) == IF a < b THEN a ELSE b
Max(a, b) == IF a > b THEN a ELSE b

\* The characters of the names in use, in ascending code-point order.
CodePoints ==
    << " ", "!", "#", "*", ".", "/", "?",
       "A", "M", "_",
       "a", "b", "c", "d", "e", "g", "i", "j", "k", "l", "m", "n", "o", "p", "r",
       "s", "t", "u", "v", "w", "x", "y", "z" >>

Code(c) == CHOOSE i \in 1..Len(CodePoints) : CodePoints[i] = c

\* str.lower() on one character
LowerChar(c) ==
    CASE c = "A" -> "a"
      [] c = "M" -> "m"
      [] OTHER -> c

Lower(s) == [i \in 1..Len(s) |-> LowerChar(s[i])]

\* Python's s < t on str: lexicographic by code point
RECURSIVE StrLess(_, _)
StrLess(s, t) ==
    IF t = <<>> THEN FALSE
    ELSE IF s = <<>> THEN TRUE
    ELSE IF s[1] # t[1] THEN Code(s[1]) < Code(t[1])
    ELSE StrLess(Tail(s), Tail(t))

StartsWith(s, pre) == Len(s) >= Len(pre) /\ SubSeq(s, 1, Len(pre)) = pre
EndsWith(s, suf) ==
    Len(s) >= Len(suf) /\ SubSeq(s, Len(s) - Len(suf) + 1, Len(s)) = suf

Contains(s, c) == \E i \in 1..Len(s) : s[i] = c

RECURSIVE Concat(_)
Concat(ss) == IF ss = <<>> THEN <<>> ELSE Head(ss) \o Concat(Tail(ss))

Whitespace == {" ", "\n", "\t", "\r"}

RECURSIVE LStrip(_)
LStrip(s) == IF s # <<>> /\ s[1] \in Whitespace THEN LStrip(Tail(s)) ELSE s

RECURSIVE RStripSet(_, _)
RStripSet(s, cs) ==
    IF s # <<>> /\ s[Len(s)] \in cs THEN RStripSet(SubSeq(s, 1, Len(s) - 1), cs)
    ELSE s

RECURSIVE LStripSet(_, _)
LStripSet(s, cs) == IF s # <<>> /\ s[1] \in cs THEN LStripSet(Tail(s), cs) ELSE s

\* str.strip()
Strip(s) == RStripSet(LStrip(s), Whitespace)

\* str.replace("**", "*"): non-overlapping occurrences, left to right
RECURSIVE ReplaceStarStar(_)
ReplaceStarStar(s) ==
    IF Len(s) < 2 THEN s
    ELSE IF s[1] = "*" /\ s[2] = "*"
         THEN <<"*">> \o ReplaceStarStar(SubSeq(s, 3, Len(s)))
         ELSE <<s[1]>> \o ReplaceStarStar(Tail(s))

\* fnmatch.fnmatch(name, pat) on a POSIX host (normcase is the identity):
\* "*" matches any run of characters ("/" included), "?" any one character.
\* Bracket expressions are outside the alphabet of the model.
RECURSIVE Fnmatch(_, _)
Fnmatch(name, pat) ==
    IF pat = <<>> THEN name = <<>>
    ELSE IF pat[1] = "*"
         THEN \/ Fnmatch(name, Tail(pat))
              \/ (name # <<>> /\ Fnmatch(Tail(name), pat))
    ELSE IF name = <<>> THEN FALSE
    ELSE IF pat[1] = "?" \/ pat[1] = name[1]
         THEN Fnmatch(Tail(name), Tail(pat))
    ELSE FALSE

\* file.readlines(): split after every "\n", terminators retained
RECURSIVE ReadLinesFrom(_, _)
ReadLinesFrom(s, cur) ==
    IF s = <<>> THEN (IF cur = <<>> THEN <<>> ELSE <<cur>>)
    ELSE IF s[1] = "\n" THEN <<Append(cur, "\n")>> \o ReadLinesFrom(Tail(s), <<>>)
    ELSE ReadLinesFrom(Tail(s), Append(cur, s[1]))

ReadLines(s) == ReadLinesFrom(s, <<>>)

-----------------------------------------------------------------------------
(* Paths (pathlib.Path, absolute and resolved) *)

\* Path.parent: the parent of the root is the root
Parent(p) == IF p = <<>> THEN <<>> ELSE SubSeq(p, 1, Len(p) - 1)

\* Path.name
NameOf(p) == IF p = <<>> THEN <<>> ELSE p[Len(p)]

\* p == base or base in p.parents: what Path.relative_to(base) accepts
IsUnder(p, base) == Len(base) <= Len(p) /\ SubSeq(p, 1, Len(base)) = base

\* base in p.parents
InParents(base, p) == base # p /\ IsUnder(p, base)

RECURSIVE JoinSlash(_)
JoinSlash(comps) ==
    IF comps = <<>> THEN <<>>
    ELSE IF Len(comps) = 1 THEN comps[1]
    ELSE comps[1] \o <<"/">> \o JoinSlash(Tail(comps))

\* p.relative_to(base).as_posix(), for p under base
RelPosix(p, base) ==
    IF p = base THEN <<".">> ELSE JoinSlash(SubSeq(p, Len(base) + 1, Len(p)))

\* the try/except ValueError around relative_to in core.py
RelativePath(p, base) == IF IsUnder(p, base) THEN RelPosix(p, base) ELSE NameOf(p)

\* Path.suffix of the final component
RECURSIVE LastDot(_, _)
LastDot(name, i) ==
    IF i = 0 THEN 0 ELSE IF name[i] = "." THEN i ELSE LastDot(name, i - 1)

Suffix(p) ==
    LET name == NameOf(p)
        i == LastDot(name, Len(name))
    IN IF 1 < i /\ i < Len(name) THEN SubSeq(name, i, Len(name)) ELSE <<>>

-----------------------------------------------------------------------------
(* The filesystem the runs inspect *)

W == <<"w">>
O == <<"o">>
SRC == <<"s", "r", "c">>
LIB == <<"l", "i", "b">>
BUILD == <<"b", "u", "i", "l", "d">>
EXT == <<"e", "x", "t">>
DOTGIT == <<".", "g", "i", "t">>
GITIGNORE == <<".", "g", "i", "t", "i", "g", "n", "o", "r", "e">>
SECRET == <<".", "s", "e", "c", "r", "e", "t">>
APP_PY == <<"a", "p", "p", ".", "p", "y">>
APP_PY_UC == <<"A", "p", "p", ".", "p", "y">>
APP_LOG == <<"a", "p", "p", ".", "l", "o", "g">>
U_PY == <<"u", ".", "p", "y">>
V_MD == <<"v", ".", "M", "d">>
OUT_BIN == <<"o", "u", "t", ".", "b", "i", "n">>
E_PY == <<"e", ".", "p", "y">>
ZZ == <<"z", "z">>

\* Path.cwd(): the invocation base directory
Cwd == <<W>>

\* Every entry below "/", in the order a forward directory listing yields them.
Entries ==
    << [path |-> <<W>>,                  dir |-> TRUE],
       [path |-> <<W, DOTGIT>>,          dir |-> TRUE],
       [path |-> <<W, GITIGNORE>>,       dir |-> FALSE],
       [path |-> <<W, SECRET>>,          dir |-> FALSE],
       [path |-> <<W, SRC>>,             dir |-> TRUE],
       [path |-> <<W, SRC, APP_PY>>,     dir |-> FALSE],
       [path |-> <<W, SRC, APP_PY_UC>>,  dir |-> FALSE],
       [path |-> <<W, SRC, APP_LOG>>,    dir |-> FALSE],
       [path |-> <<W, SRC, LIB>>,        dir |-> TRUE],
       [path |-> <<W, SRC, LIB, GITIGNORE>>, dir |-> FALSE],
       [path |-> <<W, SRC, LIB, U_PY>>,  dir |-> FALSE],
       [path |-> <<W, SRC, LIB, V_MD>>,  dir |-> FALSE],
       [path |-> <<W, BUILD>>,           dir |-> TRUE],
       [path |-> <<W, BUILD, OUT_BIN>>,  dir |-> FALSE],
       [path |-> <<O>>,                  dir |-> TRUE],
       [path |-> <<O, EXT>>,             dir |-> TRUE],
       [path |-> <<O, EXT, E_PY>>,       dir |-> FALSE],
       [path |-> <<O, SECRET>>,          dir |-> FALSE] >>

EntryIdx == 1..Len(Entries)
DirPaths == {<<>>} \cup {Entries[i].path : i \in {j \in EntryIdx : Entries[j].dir}}
FilePaths == {Entries[i].path : i \in {j \in EntryIdx : ~Entries[j].dir}}

\* Path.exists / is_dir / is_file
Exists(p) == p \in DirPaths \cup FilePaths
IsDir(p) == p \in DirPaths
IsFile(p) == p \in FilePaths

\* Bytes that are not characters of a name: a NUL byte, a byte that is not
\* valid UTF-8, and a run of SniffLen ordinary bytes holding no line break.
NUL == "<NUL>"
BAD == "<0xFF>"
FILL == "<x*1024>"

\* f.read(1024) in _read_content
SniffLen == 1024

ByteWidth(b) == IF b = FILL THEN SniffLen ELSE 1

GitignoreRootText ==
    <<"*", ".", "l", "o", "g", "\n", "b", "u", "i", "l", "d", "/", "\n">>
GitignoreLibText == <<"*", ".", "M", "d", "\n">>

\* The bytes of the files of the tree above.
DefaultFiles ==
    [p \in FilePaths |->
        CASE p = <<W, GITIGNORE>> -> GitignoreRootText
          [] p = <<W, SRC, LIB, GITIGNORE>> -> GitignoreLibText
          [] p = <<W, BUILD, OUT_BIN>> -> <<NUL, "a">>
          [] p = <<W, SRC, APP_PY_UC>> -> <<"A", "\n">>
          [] p \in {<<W, SECRET>>, <<O, SECRET>>} -> <<"k">>
          [] OTHER -> <<"a", "\n", "b", "\n">>]

RECURSIVE SelectSeq2(_, _, _)
SelectSeq2(s, d, acc) ==
    IF s = <<>> THEN acc
    ELSE SelectSeq2(Tail(s), d,
                    IF Parent(Head(s).path) = d THEN Append(acc, Head(s).path) ELSE acc)

Reverse(s) == [i \in 1..Len(s) |-> s[Len(s) + 1 - i]]

\* path.iterdir(): the entries of d; the order is the host's, here forward
\* or reversed, so that every pair of entries is met in both orders.
Iterdir(d, reversed) ==
    LET fwd == SelectSeq2(Entries, d, <<>>)
    IN IF reversed THEN Reverse(fwd) ELSE fwd

\* What the host does to the walk: the listing order, and at most one
\* directory on which system calls fail with an OSError.
\*   kind "listing": the for loop over path.iterdir() raises once `at`
\*     entries have been handled (iterdir itself when at = 0, item.is_dir()
\*     on the next entry later);
\*   kind "search": the directory cannot be searched, so every stat of an
\*     entry in it fails with EACCES, which Path.exists and Path.is_dir
\*     re-raise (they swallow only ENOENT, ENOTDIR, EBADF and ELOOP).
NoFault == [set |-> FALSE, kind |-> "none", dir |-> <<>>, at |-> 0]
ListingFault(d, k) == [set |-> TRUE, kind |-> "listing", dir |-> d, at |-> k]
SearchFault(d) == [set |-> TRUE, kind |-> "search", dir |-> d, at |-> 0]
Host(reversed, f) == [reversed |-> reversed, fault |-> f]

\* whether the loop over path's listing raises
ListingFails(path, host) ==
    /\ host.fault.set /\ host.fault.dir = path
    /\ \/ host.fault.kind = "search"
       \/ host.fault.at = 0
       \/ host.fault.at < Len(Iterdir(path, host.reversed))

\* Variant in which nothing is handled before the error.
Gathered_None(path, host) ==
    IF ListingFails(path, host) THEN <<>> ELSE Iterdir(path, host.reversed)

\* the entries the for loop of _process_dir handles: all of them, or those
\* before the one at which the OSError is raised (the try encloses the loop,
\* so what was appended before stays)
Gathered(path, host) ==
    IF ListingFails(path, host)
    THEN SubSeq(Iterdir(path, host.reversed), 1, host.fault.at)
    ELSE Iterdir(path, host.reversed)

\* whether a stat of an entry of directory d raises
StatFails(d, host) == host.fault.kind = "search" /\ host.fault.dir = d

\* whether a stat of path raises: a directory above it cannot be searched
StatFailsBelow(path, host) ==
    host.fault.kind = "search" /\ InParents(host.fault.dir, path)

-----------------------------------------------------------------------------
(* GitignoreMatcher (utils.py) *)

\* Variant of the line parser that keeps the directory marker.
ParseLine_KeepSlash(raw) ==
    LET line == Strip(raw)
    IN IF line = <<>> \/ line[1] = "#" THEN <<>>
       ELSE LET neg == line[1] = "!"
            IN <<[pat |-> IF neg THEN Tail(line) ELSE line, neg |-> neg]>>

\* One line of add_patterns: the parsed (pattern, is_negated), or nothing
ParseLine(raw) ==
    LET line == Strip(raw)
    IN IF line = <<>> \/ line[1] = "#" THEN <<>>
       ELSE LET neg == line[1] = "!"
                l1 == IF neg THEN Tail(line) ELSE line
                l2 == IF EndsWith(l1, <<"/">>) THEN RStripSet(l1, {"/"}) ELSE l1
            IN <<[pat |-> l2, neg |-> neg]>>

RECURSIVE ParseLines(_)
ParseLines(lines) ==
    IF lines = <<>> THEN <<>> ELSE ParseLine(Head(lines)) \o ParseLines(Tail(lines))

\* GitignoreMatcher.add_patterns
AddPatterns(m, base, lines) ==
    LET parsed == ParseLines(lines)
    IN IF parsed # <<>>
       THEN [m EXCEPT !.patterns = Append(@, [base |-> base, rules |-> parsed])]
       ELSE m

\* GitignoreMatcher.__init__
NewMatcher(root, additional) ==
    LET m == [root |-> root, patterns |-> <<>>]
    IN IF additional # <<>> THEN AddPatterns(m, root, additional) ELSE m

\* Text-mode decoding of a file read with open(path, "r", encoding="utf-8"):
\* universal newlines turn "\r\n" and a lone "\r" into "\n".
RECURSIVE Newlines(_)
Newlines(s) ==
    IF s = <<>> THEN <<>>
    ELSE IF s[1] = "\r"
         THEN IF Len(s) >= 2 /\ s[2] = "\n"
              THEN <<"\n">> \o Newlines(SubSeq(s, 3, Len(s)))
              ELSE <<"\n">> \o Newlines(Tail(s))
    ELSE <<s[1]>> \o Newlines(Tail(s))

\* whether the bytes decode as UTF-8
Decodes(bytes) == ~Contains(bytes, BAD)

\* f.readlines() of a file opened in text mode
TextLines(bytes) == ReadLines(Newlines(bytes))

\* GitignoreMatcher.add_patterns_from_file (the model's .gitignore files decode)
AddPatternsFromFile(m, gitignore_path, fbytes) ==
    IF ~IsFile(gitignore_path) THEN m
    ELSE AddPatterns(m, Parent(gitignore_path), TextLines(fbytes[gitignore_path]))

\* One rule of is_ignored against one path: the new value of is_ignored_flag
RuleMatches(rule, path_name, rel_to_base) ==
    LET pat == ReplaceStarStar(rule.pat)
        byName == ~Contains(pat, "/") /\ Fnmatch(path_name, pat)
        anchored == IF StartsWith(pat, <<"/">>) THEN Tail(pat) ELSE pat
    IN byName \/ Fnmatch(rel_to_base, anchored)

RECURSIVE ScanRules(_, _, _, _)

\* Variant of the rule scan in which a matching rule always sets the flag,
\* negated or not.
ScanRules_NoNegation(rules, path_name, rel_to_base, flag) ==
    IF rules = <<>> THEN flag
    ELSE ScanRules(Tail(rules), path_name, rel_to_base,
                   IF RuleMatches(Head(rules), path_name, rel_to_base)
                   THEN TRUE ELSE flag)

\* the for loop over one layer's rules in is_ignored
ScanRules(rules, path_name, rel_to_base, flag) ==
    IF rules = <<>> THEN flag
    ELSE ScanRules(Tail(rules), path_name, rel_to_base,
                   IF RuleMatches(Head(rules), path_name, rel_to_base)
                   THEN ~Head(rules).neg ELSE flag)

RECURSIVE ScanLayers(_, _, _)

\* Variant of the layer scan that applies every layer, whatever its base.
ScanLayers_AllLayers(layers, path, flag) ==
    IF layers = <<>> THEN flag
    ELSE ScanLayers(Tail(layers), path,
                    ScanRules(Head(layers).rules, NameOf(path),
                              RelPosix(path, Head(layers).base), flag))

\* the for loop over self.patterns in is_ignored
ScanLayers(layers, path, flag) ==
    IF layers = <<>> THEN flag
    ELSE LET layer == Head(layers)
         IN ScanLayers(Tail(layers), path,
                       IF IsUnder(path, layer.base)
                       THEN ScanRules(layer.rules, NameOf(path),
                                      RelPosix(path, layer.base), flag)
                       ELSE flag)

\* GitignoreMatcher.is_ignored
IsIgnored(m, path) ==
    IF ~IsUnder(path, m.root) THEN FALSE ELSE ScanLayers(m.patterns, path, FALSE)

\* no document has been written
NoDocument == [written |-> FALSE, renderer |-> "", meta |-> {}, results |-> <<>>]

\* no command is running: these runs call the library directly
NoCommand == [format |-> "", exit |-> -1, scanned |-> FALSE, document |-> NoDocument]

\* no add_patterns call yet, no is_ignored call yet
NotAdded == [set |-> FALSE, base |-> <<>>, lines |-> <<>>, before |-> <<>>]
NotAsked == [set |-> FALSE, path |-> <<>>, answer |-> FALSE]

\* find_git_root: the nearest of start_path and its parents holding ".git"
RECURSIVE FindGitRoot(_)
FindGitRoot(p) ==
    IF Exists(Append(p, DOTGIT)) THEN [found |-> TRUE, path |-> p]
    ELSE IF p = <<>> THEN [found |-> FALSE, path |-> <<>>]
    ELSE FindGitRoot(Parent(p))

\* the file core.excludesfile names when the host configures one, at the
\* filesystem root; it is a file exactly when the run's files hold it
EXCLUDES == <<".", "g", "x">>
ExcludesFile == <<EXCLUDES>>

\* str.splitlines of a text whose line ends are "\n": the lines without them
SplitLines(text) ==
    LET ls == ReadLines(text)
    IN [k \in 1..Len(ls) |-> RStripSet(ls[k], {"\n"})]

\* get_global_gitignore: the directory and the lines of the configured file,
\* nothing when none is configured, it is not a file or it cannot be read
GlobalGitignore(fbytes) ==
    IF ExcludesFile \in DOMAIN fbytes /\ Decodes(fbytes[ExcludesFile])
    THEN [found |-> TRUE, base |-> Parent(ExcludesFile),
          lines |-> SplitLines(Newlines(fbytes[ExcludesFile]))]
    ELSE [found |-> FALSE, base |-> <<>>, lines |-> <<>>]

-----------------------------------------------------------------------------
(* Inspector (core.py) *)

NoContent == [some |-> FALSE, text |-> <<>>]
SomeContent(t) == [some |-> TRUE, text |-> t]
NoDepth == [set |-> FALSE, val |-> 0]
Depth(n) == [set |-> TRUE, val |-> n]

\* Inspector.__init__
NewInspector(include_hidden, ignore_patterns, ignore_dirs, max_depth, no_gitignore, extensions, read_all, head, tail) ==
    [include_hidden |-> include_hidden,
     ignore_patterns |-> ignore_patterns,
     ignore_dirs |-> ignore_dirs,
     max_depth |-> max_depth,
     use_gitignore |-> ~no_gitignore,
     extensions |-> {<<".">> \o LStripSet(e, {"."}) : e \in extensions},
     read_all |-> read_all,
     head |-> head,
     tail |-> tail]

\* FileNode(...)
FileNode(path, is_dir) ==
    [name |-> NameOf(path), path |-> path,
     relative_path |-> RelativePath(path, Cwd),
     is_dir |-> is_dir, content |-> NoContent, children |-> <<>>]

\* Variant of _should_read_content that forgets read_all: only the allow-list
\* decides.
ShouldReadContent_ExtOnly(o, path) == Suffix(path) \in o.extensions

\* Inspector._should_read_content
ShouldReadContent(o, path) == IF o.read_all THEN TRUE ELSE Suffix(path) \in o.extensions

\* b"\0" in f.read(1024): a NUL among the first SniffLen bytes
RECURSIVE NulInFirst(_, _)
NulInFirst(bytes, room) ==
    IF bytes = <<>> \/ room <= 0 THEN FALSE
    ELSE IF bytes[1] = NUL THEN TRUE
    ELSE NulInFirst(Tail(bytes), room - ByteWidth(bytes[1]))

\* lines[:n] and lines[-n:] for n > 0
SliceHead(lines, n) == SubSeq(lines, 1, Min(n, Len(lines)))
\* Variant of lines[-n:] that keeps one line too many: lines[-(n+1):].
SliceTail_OffByOne(lines, n) == SubSeq(lines, Max(Len(lines) - n - 1, 0) + 1, Len(lines))
SliceTail(lines, n) == SubSeq(lines, Max(Len(lines) - n, 0) + 1, Len(lines))

\* Inspector._read_content: the content the node ends with
ReadContent(o, bytes) ==
    IF NulInFirst(bytes, SniffLen) THEN NoContent
    ELSE IF ~Decodes(bytes) THEN NoContent
    ELSE LET lines == TextLines(bytes)
             kept == IF o.head > 0 THEN SliceHead(lines, o.head)
                     ELSE IF o.tail > 0 THEN SliceTail(lines, o.tail)
                     ELSE lines
         IN SomeContent(Concat(kept))

\* Inspector._process_file (metadata collection is not modelled)
ProcessFile(o, fbytes, path) ==
    IF ShouldReadContent(o, path)
    THEN [FileNode(path, FALSE) EXCEPT !.content = ReadContent(o, fbytes[path])]
    ELSE FileNode(path, FALSE)

\* node.children.append(child) on the node with identity id
AppendChild(h, id, child) == [h EXCEPT ![id].children = Append(@, child)]

\* Variant of the hidden-entry test that skips nothing.
SkipHidden_Never(o, name) == FALSE

\* the hidden-entry test of _process_dir's loop
SkipHidden(o, name) ==
    ~o.include_hidden /\ StartsWith(name, <<".">>) /\ name # GITIGNORE

\* Variant of the directory-blocklist test that skips nothing.
SkipBlocked_Never(o, item) == FALSE

\* the directory-blocklist test of _process_dir's loop
SkipBlocked(o, item) == IsDir(item) /\ NameOf(item) \in o.ignore_dirs

\* Variant of the matcher test that skips nothing.
SkipIgnored_Never(m, item) == FALSE

\* the matcher test of _process_dir's loop
SkipIgnored(m, item) == IsIgnored(m, item)

\* Inspector._process_dir: [ws |-> the heap, matcher and log afterwards,
\* id |-> the node built, 0 for None, raised |-> whether an OSError left the
\* function].  ProcessItems is its for loop with the except clauses.
RECURSIVE ProcessDir(_, _, _, _, _, _)
RECURSIVE ProcessItems(_, _, _, _, _, _, _)

\* Variant of _process_dir without the max_depth test.
ProcessDir_NoDepthCheck(o, fbytes, path, ws, depth, host) ==
    IF IsIgnored(ws.m, path) THEN [ws |-> ws, id |-> 0, raised |-> FALSE]
    ELSE IF o.use_gitignore /\ StatFails(path, host)
    THEN [ws |-> ws, id |-> 0, raised |-> TRUE]
    ELSE LET local_gitignore == Append(path, GITIGNORE)
             m1 == IF o.use_gitignore /\ Exists(local_gitignore)
                   THEN AddPatternsFromFile(ws.m, local_gitignore, fbytes)
                   ELSE ws.m
             id == Len(ws.heap) + 1
             ws1 == [ws EXCEPT !.heap = Append(ws.heap, FileNode(path, TRUE)), !.m = m1]
             ws2 == ProcessItems(o, fbytes, Gathered(path, host), id, ws1, depth, host)
         IN [ws |-> IF ListingFails(path, host)
                    THEN [ws2 EXCEPT !.log = @ \cup {<<"directory access error", path>>}]
                    ELSE ws2,
             id |-> id, raised |-> FALSE]

ProcessDir(o, fbytes, path, ws, depth, host) ==
    IF o.max_depth.set /\ depth > o.max_depth.val THEN [ws |-> ws, id |-> 0, raised |-> FALSE]
    ELSE IF IsIgnored(ws.m, path) THEN [ws |-> ws, id |-> 0, raised |-> FALSE]
    ELSE IF o.use_gitignore /\ StatFails(path, host)
    THEN [ws |-> ws, id |-> 0, raised |-> TRUE]
    ELSE LET local_gitignore == Append(path, GITIGNORE)
             m1 == IF o.use_gitignore /\ Exists(local_gitignore)
                   THEN AddPatternsFromFile(ws.m, local_gitignore, fbytes)
                   ELSE ws.m
             id == Len(ws.heap) + 1
             ws1 == [ws EXCEPT !.heap = Append(ws.heap, FileNode(path, TRUE)), !.m = m1]
             ws2 == ProcessItems(o, fbytes, Gathered(path, host), id, ws1, depth, host)
         IN [ws |-> IF ListingFails(path, host)
                    THEN [ws2 EXCEPT !.log = @ \cup {<<"directory access error", path>>}]
                    ELSE ws2,
             id |-> id, raised |-> FALSE]

ProcessItems(o, fbytes, items, id, ws, depth, host) ==
    IF items = <<>> THEN ws
    ELSE LET item == Head(items)
             rest == Tail(items)
         IN IF SkipHidden(o, NameOf(item))
            THEN ProcessItems(o, fbytes, rest, id, ws, depth, host)
            ELSE IF SkipBlocked(o, item)
            THEN ProcessItems(o, fbytes, rest, id, ws, depth, host)
            ELSE IF SkipIgnored(ws.m, item)
            THEN ProcessItems(o, fbytes, rest, id, ws, depth, host)
            ELSE IF IsDir(item)
            THEN LET r == ProcessDir(o, fbytes, item, ws, depth + 1, host)
                     ws1 == IF r.id # 0
                            THEN [r.ws EXCEPT !.heap = AppendChild(@, id, r.id)]
                            ELSE r.ws
                 IN IF r.raised
                    THEN [r.ws EXCEPT !.log = @ \cup {<<"directory access error",
                                                       ws.heap[id].path>>}]
                    ELSE ProcessItems(o, fbytes, rest, id, ws1, depth, host)
            ELSE LET cid == Len(ws.heap) + 1
                     h1 == Append(ws.heap, ProcessFile(o, fbytes, item))
                     ws1 == [ws EXCEPT !.heap = AppendChild(h1, id, cid)]
                 IN ProcessItems(o, fbytes, rest, id, ws1, depth, host)

RECURSIVE EnsureDirExists(_, _, _)

\* Variant of _ensure_dir_exists that never records the node it creates in
\* the cache.
EnsureDirExists_NoMemo(dir_path, h, c) ==
    IF dir_path \in DOMAIN c THEN [heap |-> h, cache |-> c, id |-> c[dir_path]]
    ELSE IF ~InParents(Cwd, dir_path) /\ Cwd # dir_path
    THEN [heap |-> h, cache |-> c, id |-> c[Cwd]]
    ELSE LET up == EnsureDirExists(Parent(dir_path), h, c)
             id == Len(up.heap) + 1
             h1 == Append(up.heap, FileNode(dir_path, TRUE))
         IN [heap |-> AppendChild(h1, up.id, id), cache |-> up.cache, id |-> id]

\* Inspector._ensure_dir_exists: [heap, cache, id |-> the node of dir_path]
EnsureDirExists(dir_path, h, c) ==
    IF dir_path \in DOMAIN c THEN [heap |-> h, cache |-> c, id |-> c[dir_path]]
    ELSE IF ~InParents(Cwd, dir_path) /\ Cwd # dir_path
    THEN [heap |-> h, cache |-> c, id |-> c[Cwd]]
    ELSE LET up == EnsureDirExists(Parent(dir_path), h, c)
             id == Len(up.heap) + 1
             h1 == Append(up.heap, FileNode(dir_path, TRUE))
         IN [heap |-> AppendChild(h1, up.id, id),
             cache |-> (dir_path :> id) @@ up.cache,
             id |-> id]

\* Variant of the matcher's construction that adds the command line's
\* patterns last, after the global rules and the root's ignore file.
BuildMatcher_CliLast(o, fbytes, path) ==
    IF o.use_gitignore
    THEN LET git_root == FindGitRoot(path)
             root_for_matcher ==
                 IF git_root.found THEN git_root.path
                 ELSE IF IsDir(path) THEN path ELSE Parent(path)
             m0 == NewMatcher(root_for_matcher, <<>>)
             g == GlobalGitignore(fbytes)
             m1 == IF g.found THEN AddPatterns(m0, g.base, g.lines) ELSE m0
             m2 == IF git_root.found
                   THEN AddPatternsFromFile(m1, Append(git_root.path, GITIGNORE), fbytes)
                   ELSE m1
         IN IF o.ignore_patterns # <<>>
            THEN AddPatterns(m2, root_for_matcher, o.ignore_patterns)
            ELSE m2
    ELSE NewMatcher(IF IsDir(path) THEN path ELSE Parent(path), o.ignore_patterns)

\* the matcher inspect builds for one input path (core.py 157-177)
BuildMatcher(o, fbytes, path) ==
    IF o.use_gitignore
    THEN LET git_root == FindGitRoot(path)
             root_for_matcher ==
                 IF git_root.found THEN git_root.path
                 ELSE IF IsDir(path) THEN path ELSE Parent(path)
             m0 == NewMatcher(root_for_matcher, o.ignore_patterns)
             g == GlobalGitignore(fbytes)
             m1 == IF g.found THEN AddPatterns(m0, g.base, g.lines) ELSE m0
         IN IF git_root.found
            THEN AddPatternsFromFile(m1, Append(git_root.path, GITIGNORE), fbytes)
            ELSE m1
    ELSE NewMatcher(IF IsDir(path) THEN path ELSE Parent(path), o.ignore_patterns)

\* the ids among ids whose node has the given path, in order
RECURSIVE WithPath(_, _, _)
WithPath(h, ids, path) ==
    IF ids = <<>> THEN <<>>
    ELSE (IF h[Head(ids)].path = path THEN <<Head(ids)>> ELSE <<>>)
         \o WithPath(h, Tail(ids), path)

\* the merge loop of inspect (core.py 196-199)
RECURSIVE MergeChildren(_, _, _, _)
MergeChildren(h, existing, new_children, existing_paths) ==
    IF new_children = <<>> THEN h
    ELSE LET nc == Head(new_children)
         IN MergeChildren(
                IF h[nc].path \notin existing_paths THEN AppendChild(h, existing, nc) ELSE h,
                existing, Tail(new_children), existing_paths)

\* inspect's handling of an input path that is a file (core.py 179-185)
InspectFile(o, fbytes, path, st, matcher) ==
    IF IsIgnored(matcher, path) THEN st
    ELSE LET e == EnsureDirExists(Parent(path), st.heap, st.cache)
             fid == Len(e.heap) + 1
             h1 == Append(e.heap, ProcessFile(o, fbytes, path))
         IN [st EXCEPT
               !.heap = IF WithPath(h1, h1[e.id].children, path) = <<>>
                        THEN AppendChild(h1, e.id, fid) ELSE h1,
               !.cache = e.cache]

\* what inspect does with r, the outcome of _process_dir for an input
\* directory: nothing when it is None, else the node is attached under its
\* parent or merged into the node already there (core.py 189-199)
AttachDir(path, st, r) ==
    IF r.raised THEN [st EXCEPT !.raised = TRUE]
    ELSE IF r.id = 0 THEN [st EXCEPT !.heap = r.ws.heap, !.log = r.ws.log]
    ELSE LET e == EnsureDirExists(Parent(path), r.ws.heap, st.cache)
             found == WithPath(e.heap, e.heap[e.id].children, path)
         IN [st EXCEPT
               !.log = r.ws.log,
               !.heap =
                  IF found # <<>>
                  THEN MergeChildren(
                           e.heap, found[1], e.heap[r.id].children,
                           {e.heap[k].path :
                               k \in {e.heap[found[1]].children[j] :
                                         j \in 1..Len(e.heap[found[1]].children)}})
                  ELSE AppendChild(e.heap, e.id, r.id),
               !.cache = e.cache]

\* inspect's handling of an input path that is a directory (core.py 187-201)
InspectDir(o, fbytes, path, st, matcher, host) ==
    AttachDir(path, st,
              ProcessDir(o, fbytes, path,
                         [heap |-> st.heap, m |-> matcher, log |-> st.log], 0, host))

\* the two branches of the loop body once the matcher is built (core.py 179-201)
InspectWith(o, fbytes, path, st, matcher, host) ==
    IF IsFile(path) THEN InspectFile(o, fbytes, path, st, matcher)
    ELSE InspectDir(o, fbytes, path, st, matcher, host)

\* Variant of the loop body without the exists() test: a missing path falls
\* through to the directory branch.
InspectOne_NoExistsCheck(o, fbytes, path, st, host) ==
    InspectWith(o, fbytes, path, st, BuildMatcher(o, fbytes, path), host)

\* The body of inspect's for loop for one path; st = [heap, cache, log,
\* raised |-> whether an exception left inspect].
InspectOne(o, fbytes, path, st, host) ==
    IF StatFailsBelow(path, host) THEN [st EXCEPT !.raised = TRUE]
    ELSE IF ~Exists(path) THEN [st EXCEPT !.log = @ \cup {<<"path does not exist", path>>}]
    ELSE IF o.use_gitignore /\ StatFails(path, host) THEN [st EXCEPT !.raised = TRUE]
    ELSE InspectWith(o, fbytes, path, st, BuildMatcher(o, fbytes, path), host)

\* Variant of the sort key without .lower(): names compared as they are.
KeyLess_CaseSensitive(a, b) ==
    IF a.is_dir # b.is_dir THEN a.is_dir
    ELSE StrLess(a.name, b.name)

\* node.children.sort(key=lambda p: (not p.is_dir, p.name.lower())): whether
\* the key of a is strictly less than the key of b
KeyLess(a, b) ==
    IF a.is_dir # b.is_dir THEN a.is_dir
    ELSE StrLess(Lower(a.name), Lower(b.name))

\* list.sort is stable: insert x after every element whose key is not greater
RECURSIVE InsertSorted(_, _, _)
InsertSorted(h, sorted, x) ==
    IF sorted = <<>> THEN <<x>>
    ELSE IF KeyLess(h[x], h[Head(sorted)]) THEN <<x>> \o sorted
    ELSE <<Head(sorted)>> \o InsertSorted(h, Tail(sorted), x)

RECURSIVE StableSort(_, _, _)
StableSort(h, ids, acc) ==
    IF ids = <<>> THEN acc ELSE StableSort(h, Tail(ids), InsertSorted(h, acc, Head(ids)))

\* Inspector._sort_children_recursive; SortEach is its for loop
RECURSIVE SortChildrenRecursive(_, _)
RECURSIVE SortEach(_, _)
SortChildrenRecursive(h, id) ==
    IF ~h[id].is_dir THEN h
    ELSE LET h1 == [h EXCEPT ![id].children = StableSort(h, @, <<>>)]
         IN SortEach(h1, h1[id].children)

SortEach(h, ids) ==
    IF ids = <<>> THEN h ELSE SortEach(SortChildrenRecursive(h, Head(ids)), Tail(ids))

\* the virtual root node, created first (core.py 148-149)
RootId == 1
RootNode == [FileNode(Cwd, TRUE) EXCEPT !.name = <<".">>, !.relative_path = <<".">>]
InitHeap == <<RootNode>>
InitCache == (Cwd :> RootId)

\* inspect from its first statement to its return, as one function: the
\* loop over paths, the final sort, and the returned list.
RECURSIVE InspectLoop(_, _, _, _, _)
InspectLoop(o, fbytes, paths, host, st) ==
    IF paths = <<>> \/ st.raised THEN st
    ELSE InspectLoop(o, fbytes, Tail(paths), host,
                     InspectOne(o, fbytes, Head(paths), st, host))

InitState == [heap |-> InitHeap, cache |-> InitCache, log |-> {}, raised |-> FALSE]

\* the end of inspect after the loop left st: the sort and the returned
\* list, nothing returned when an exception left the loop (core.py 203-204)
SortAndReturn(st) ==
    IF st.raised
    THEN [heap |-> st.heap, result |-> <<>>, log |-> st.log, raised |-> TRUE]
    ELSE LET h == SortChildrenRecursive(st.heap, RootId)
         IN [heap |-> h, result |-> h[RootId].children, log |-> st.log, raised |-> FALSE]

Inspect(o, fbytes, paths, host) ==
    SortAndReturn(InspectLoop(o, fbytes, paths, host, InitState))

-----------------------------------------------------------------------------
(* The runs *)

\* the input paths tried
InputChoices ==
    { <<W>>, <<W, SRC>>, <<W, SRC, LIB>>, <<W, SRC, LIB, U_PY>>, <<W, SRC, APP_LOG>>,
      <<W, BUILD, OUT_BIN>>, <<W, ZZ>>, <<O, EXT>>, <<O, SECRET>> }

SeqsUpTo(S, n) == UNION {[1..k -> S] : k \in 0..n}

DepthChoices == {NoDepth} \cup {Depth(d) : d \in 0..MaxDepthOpt}

\* the Inspectors tried by the traversal runs
TreeOptions ==
    { NewInspector(hid, <<>>, blk, md, nogit, {<<"p", "y">>}, FALSE, 0, 0) :
        hid \in BOOLEAN, blk \in {{}, {BUILD}}, md \in DepthChoices, nogit \in BOOLEAN }

Init ==
    /\ opts \in TreeOptions
    /\ files = DefaultFiles
    /\ inputs \in SeqsUpTo(InputChoices, MaxInputs)
    /\ idx = 1
    /\ heap = InitHeap
    /\ cache = InitCache
    /\ log = {}
    /\ rev \in BOOLEAN
    /\ fault = NoFault
    /\ pc = "loop"
    /\ result = <<>>
    /\ gmatcher = NewMatcher(<<>>, <<>>) /\ added = NotAdded /\ asked = NotAsked
    /\ cli = NoCommand

Cur == [heap |-> heap, cache |-> cache, log |-> log, raised |-> FALSE]

\* the host as the run meets it
CurHost == Host(rev, fault)

\* the loop moves on to the next path, or an exception leaves inspect
Advance(st) ==
    /\ heap' = st.heap
    /\ cache' = st.cache
    /\ log' = st.log
    /\ idx' = idx + 1
    /\ pc' = IF st.raised THEN "raised" ELSE pc
    /\ UNCHANGED <<opts, files, inputs, rev, fault, result>>
    /\ UNCHANGED matcherVars
    /\ UNCHANGED cli

\* the loop meets a path that does not exist (core.py 153-155)
SkipMissing ==
    /\ pc = "loop" /\ idx <= Len(inputs)
    /\ ~Exists(inputs[idx])
    /\ Advance(InspectOne(opts, files, inputs[idx], Cur, CurHost))

\* the loop meets a file (core.py 179-185)
InspectFileStep ==
    /\ pc = "loop" /\ idx <= Len(inputs)
    /\ IsFile(inputs[idx])
    /\ Advance(InspectOne(opts, files, inputs[idx], Cur, CurHost))

\* the loop meets a directory (core.py 187-201)
InspectDirStep ==
    /\ pc = "loop" /\ idx <= Len(inputs)
    /\ IsDir(inputs[idx])
    /\ Advance(InspectOne(opts, files, inputs[idx], Cur, CurHost))

\* the loop is over: sort and return (core.py 203-204)
Return ==
    /\ pc = "loop" /\ idx > Len(inputs)
    /\ LET h == SortChildrenRecursive(heap, RootId)
       IN /\ heap' = h
          /\ result' = h[RootId].children
    /\ pc' = "done"
    /\ UNCHANGED <<opts, files, inputs, idx, cache, log, rev, fault>>
    /\ UNCHANGED matcherVars
    /\ UNCHANGED cli

Next == SkipMissing \/ InspectFileStep \/ InspectDirStep \/ Return

Spec == Init /\ [][Next]_vars

-----------------------------------------------------------------------------
(* Reading a forest *)

\* the ids below (and including) the ids given
RECURSIVE Below(_, _)
Below(h, ids) ==
    IF ids = <<>> THEN {}
    ELSE {Head(ids)} \cup Below(h, h[Head(ids)].children) \cup Below(h, Tail(ids))

\* the nodes of the returned forest
ForestIds == Below(heap, result)

\* the forest as a value: each node with its children's values in order
RECURSIVE TreeOf(_, _)
RECURSIVE TreesOf(_, _)
TreeOf(h, id) ==
    [name |-> h[id].name, path |-> h[id].path, relative_path |-> h[id].relative_path,
     is_dir |-> h[id].is_dir, content |-> h[id].content,
     children |-> TreesOf(h, h[id].children)]

TreesOf(h, ids) ==
    IF ids = <<>> THEN <<>> ELSE <<TreeOf(h, Head(ids))>> \o TreesOf(h, Tail(ids))

Done == pc = "done"

ForestPaths == {heap[id].path : id \in ForestIds}

\* the input paths that exist, and those that do not
ExistingInputs == {inputs[k] : k \in {j \in 1..Len(inputs) : Exists(inputs[j])}}
MissingInputs == {inputs[k] : k \in {j \in 1..Len(inputs) : ~Exists(inputs[j])}}

\* p itself and every directory above it, the filesystem root excluded
Prefixes(p) == {SubSeq(p, 1, k) : k \in 1..Len(p)}

\* the subsequence of s at the positions keep holds
RECURSIVE Pick(_, _, _)
Pick(s, keep, i) ==
    IF i > Len(s) THEN <<>>
    ELSE (IF i \in keep THEN <<s[i]>> ELSE <<>>) \o Pick(s, keep, i + 1)

-----------------------------------------------------------------------------
(* C1 *)

\* directories before files, and within each group names ascending when
\* compared without case
ChildrenSorted(h, ids) ==
    \A i, j \in 1..Len(ids) :
        i < j =>
            LET a == h[ids[i]]
                b == h[ids[j]]
            IN /\ ~(~a.is_dir /\ b.is_dir)
               /\ (a.is_dir = b.is_dir => ~StrLess(Lower(b.name), Lower(a.name)))

\* C1: in the forest inspect returns, the top-level list and the children of
\* every directory node at every depth are ordered directories first, then
\* by name ascending without regard to case.
C1_ChildrenSorted ==
    Done =>
        /\ ChildrenSorted(heap, result)
        /\ \A id \in ForestIds : heap[id].is_dir => ChildrenSorted(heap, heap[id].children)

\* C1 witness: a returned forest, built from a reversed listing, with a
\* directory that holds a subdirectory and at least two files.
C1_Witness ==
    /\ Done
    /\ rev
    /\ \E id \in ForestIds :
          /\ Len(heap[id].children) >= 3
          /\ \E i, j \in 1..Len(heap[id].children) :
                heap[heap[id].children[i]].is_dir /\ ~heap[heap[id].children[j]].is_dir

-----------------------------------------------------------------------------
(* C3 *)

\* C3: no two nodes of the returned forest have the same absolute path.
C3_UniquePaths ==
    Done => \A a, b \in ForestIds : heap[a].path = heap[b].path => a = b

-----------------------------------------------------------------------------
(* C9 *)

ExistingAt == {k \in 1..Len(inputs) : Exists(inputs[k])}

\* C9: a path that does not exist adds no node and stops nothing: a warning
\* is logged for it and the forest returned is the forest inspect returns for
\* the same list without the missing paths.
C9_MissingPathSkipped ==
    (Done /\ MissingInputs # {}) =>
        /\ \A p \in MissingInputs :
              /\ p \notin ForestPaths
              /\ <<"path does not exist", p>> \in log
        /\ TreesOf(heap, result) =
              LET r == Inspect(opts, files, Pick(inputs, ExistingAt, 1), CurHost)
              IN TreesOf(r.heap, r.result)

\* C9 witness: a finished run whose list names a missing path before a path
\* that exists, and which returned nodes.
C9_Witness ==
    /\ Done
    /\ result # <<>>
    /\ \E i, j \in 1..Len(inputs) : i < j /\ ~Exists(inputs[i]) /\ Exists(inputs[j])

-----------------------------------------------------------------------------
(* C10 *)

\* C10: the forest returned (nodes and the order of every children list) is
\* the same whatever order the directory listings of the run came in.
C10_ListingOrderIrrelevant ==
    Done =>
        \A lr \in BOOLEAN :
            LET r == Inspect(opts, files, inputs, Host(lr, fault))
            IN TreesOf(r.heap, r.result) = TreesOf(heap, result)

-----------------------------------------------------------------------------
(* C2 *)

Separate(p, q) == ~IsUnder(p, q) /\ ~IsUnder(q, p)

\* the directories above both p and q, the filesystem root excluded
CommonAncestors(p, q) == Prefixes(Parent(p)) \cap Prefixes(Parent(q))

NodesAt(d) == {id \in ForestIds : heap[id].path = d}

\* the matcher inspect builds for input p does not exclude p
InputPasses(p) == ~IsIgnored(BuildMatcher(opts, files, p), p)

\* one node for d, no child of it twice, and p and q below it
MergedUnder(d, p, q) ==
    /\ Cardinality(NodesAt(d)) = 1
    /\ \A id \in NodesAt(d) :
          /\ \A i, j \in 1..Len(heap[id].children) :
                heap[heap[id].children[i]].path = heap[heap[id].children[j]].path => i = j
          /\ {p, q} \subseteq {heap[k].path : k \in Below(heap, heap[id].children)}

\* the runs C2 is about: the existing inputs are two separate paths that the
\* matcher lets through
TwoSeparateInputs(p, q) ==
    /\ ExistingInputs = {p, q}
    /\ Separate(p, q)
    /\ InputPasses(p) /\ InputPasses(q)

TopLevel(p) == \E k \in 1..Len(result) : heap[result[k]].path = p

-----------------------------------------------------------------------------
(* C4, C5, C6: what the walk of a directory input lets through *)

HiddenName(name) == name # <<>> /\ name[1] = "."
Blocklisted(x) == IsDir(x) /\ NameOf(x) \in opts.ignore_dirs

\* the matcher as it stands when the walk of input P tests entry e below P:
\* the matcher built for P, then the ignore file of every directory from P
\* down to e's parent
RECURSIVE WalkMatcherFrom(_, _, _)
WalkMatcherFrom(m, e, k) ==
    IF k >= Len(e) THEN m
    ELSE LET d == SubSeq(e, 1, k)
             m1 == IF opts.use_gitignore /\ Exists(Append(d, GITIGNORE))
                   THEN AddPatternsFromFile(m, Append(d, GITIGNORE), files)
                   ELSE m
         IN WalkMatcherFrom(m1, e, k + 1)

WalkMatcher(P, e) == WalkMatcherFrom(BuildMatcher(opts, files, P), e, Len(P))

IgnoredInWalk(P, e) == IsIgnored(WalkMatcher(P, e), e)

\* the entries strictly below P down to e
Chain(P, e) == {SubSeq(e, 1, k) : k \in (Len(P) + 1)..Len(e)}

DepthAllows(P, x) ==
    ~opts.max_depth.set \/ ~IsDir(x) \/ Len(x) - Len(P) <= opts.max_depth.val

\* node path n is an input or lies above one
AtOrAboveInput(n) == \E P \in ExistingInputs : IsUnder(P, n)

\* C4 as stated: with ignore files in use, nothing the matcher built for an
\* input answers ignored for, and nothing below such a directory, is in the
\* forest; and with /w as the only input the forest holds src/app.py but not
\* src/app.log, build or build/out.bin.
C4_Original ==
    (Done /\ opts.use_gitignore) =>
        /\ \A id \in ForestIds : \A x \in Prefixes(heap[id].path) :
              \A P \in ExistingInputs : ~IsIgnored(BuildMatcher(opts, files, P), x)
        /\ (inputs = <<Cwd>> /\ ~opts.max_depth.set) =>
              /\ <<W, SRC, APP_PY>> \in ForestPaths
              /\ ForestPaths \cap {<<W, SRC, APP_LOG>>, <<W, BUILD>>, <<W, BUILD, OUT_BIN>>} = {}

\* C4 amended: with ignore files in use, every node of the forest is an
\* input, lies above an input, or lies below a directory input P that the
\* matcher lets through, with no entry on the way down from P for which the
\* walk's matcher answers ignored; and the example holds for the single
\* input /w.
C4_IgnoredNotWalked ==
    (Done /\ opts.use_gitignore) =>
        /\ \A id \in ForestIds :
              \/ AtOrAboveInput(heap[id].path)
              \/ \E P \in ExistingInputs :
                    /\ InParents(P, heap[id].path)
                    /\ InputPasses(P)
                    /\ \A x \in Chain(P, heap[id].path) : ~IgnoredInWalk(P, x)
        /\ (inputs = <<Cwd>> /\ ~opts.max_depth.set) =>
              /\ <<W, SRC, APP_PY>> \in ForestPaths
              /\ ForestPaths \cap {<<W, SRC, APP_LOG>>, <<W, BUILD>>, <<W, BUILD, OUT_BIN>>} = {}

\* C4 witness: ignore files in use, /w walked without depth limit, src/app.py
\* returned.
C4_Witness ==
    /\ Done /\ opts.use_gitignore
    /\ inputs = <<Cwd>> /\ ~opts.max_depth.set
    /\ <<W, SRC, APP_PY>> \in ForestPaths

\* C5 as stated: without hidden-inclusion no node has a name starting with
\* "." other than ".gitignore".
C5_Original ==
    (Done /\ ~opts.include_hidden) =>
        \A id \in ForestIds : HiddenName(heap[id].name) => heap[id].name = GITIGNORE

\* an entry below the single directory input P that every filter of the walk
\* lets through, the hidden rule being: hidden-inclusion on, or not a hidden
\* name, or ".gitignore"
Admitted(P, e) ==
    /\ InputPasses(P)
    /\ \A x \in Chain(P, e) :
          /\ opts.include_hidden \/ ~HiddenName(NameOf(x)) \/ NameOf(x) = GITIGNORE
          /\ ~Blocklisted(x)
          /\ ~IgnoredInWalk(P, x)
          /\ DepthAllows(P, x)

\* C5 amended: without hidden-inclusion a node with a hidden name other than
\* ".gitignore" is an input path or a directory above one; and when one
\* directory is walked, every entry named ".gitignore", and with
\* hidden-inclusion every hidden entry, that the other filters let through
\* is in the forest.
C5_HiddenOnlyAsInput ==
    Done =>
        /\ ~opts.include_hidden =>
              \A id \in ForestIds :
                  (HiddenName(heap[id].name) /\ heap[id].name # GITIGNORE)
                      => AtOrAboveInput(heap[id].path)
        /\ \A P \in DirPaths :
              inputs = <<P>> =>
                  \A e \in DirPaths \cup FilePaths :
                      (InParents(P, e) /\ HiddenName(NameOf(e)) /\ Admitted(P, e))
                          => e \in ForestPaths

\* C5 witness: /w walked without hidden-inclusion: .gitignore returned,
\* .secret not.
C5_Witness ==
    /\ Done /\ ~opts.include_hidden
    /\ inputs = <<Cwd>>
    /\ <<W, GITIGNORE>> \in ForestPaths
    /\ <<W, SECRET>> \notin ForestPaths

\* C6 as stated: no node of the forest is, or lies below, a directory whose
\* name is in the blocklist.
C6_Original ==
    Done => \A id \in ForestIds : \A x \in Prefixes(heap[id].path) : ~Blocklisted(x)

\* C6 amended: a blocklisted directory, and anything below it, is in the
\* forest only when an input path is that directory or lies inside it.
C6_BlockedOnlyAsInput ==
    Done =>
        \A id \in ForestIds : \A x \in Prefixes(heap[id].path) :
            Blocklisted(x) => \E P \in ExistingInputs : IsUnder(P, x)

\* C6 witness: /w walked with build blocklisted and ignore files off, so
\* that only the blocklist is in the way of build: the forest holds src and
\* no build.
C6_Witness ==
    /\ Done /\ BUILD \in opts.ignore_dirs /\ ~opts.use_gitignore
    /\ inputs = <<Cwd>>
    /\ <<W, SRC>> \in ForestPaths
    /\ <<W, BUILD>> \notin ForestPaths

-----------------------------------------------------------------------------
(* Content loading: inspect on one file, over the files and options drawn *)

\* the file the content runs read
Target == <<W, SRC, LIB, V_MD>>

ByteChoices == {"a", "\n", "\r", NUL, BAD, FILL}

\* head and tail as the command line lets them through: not both positive
TruncationChoices ==
    {<<n, 0>> : n \in 0..MaxLinesOpt} \cup {<<0, n>> : n \in 1..MaxLinesOpt}

ContentOptions ==
    { NewInspector(FALSE, <<>>, {}, NoDepth, FALSE, exts, all, t[1], t[2]) :
        exts \in {{}, {<<"M", "d">>}, {<<".", "m", "d">>}},
        all \in BOOLEAN, t \in TruncationChoices }

InitContent ==
    /\ opts \in ContentOptions
    /\ files \in {[DefaultFiles EXCEPT ![Target] = b] : b \in SeqsUpTo(ByteChoices, MaxFileLen)}
    /\ inputs = <<Target>>
    /\ idx = 1
    /\ heap = InitHeap
    /\ cache = InitCache
    /\ log = {}
    /\ rev = FALSE
    /\ fault = NoFault
    /\ pc = "loop"
    /\ result = <<>>
    /\ gmatcher = NewMatcher(<<>>, <<>>) /\ added = NotAdded /\ asked = NotAsked
    /\ cli = NoCommand

NextContent == InspectFileStep \/ Return

SpecContent == InitContent /\ [][NextContent]_vars

\* the file nodes of the returned forest
FileNodes == {id \in ForestIds : ~heap[id].is_dir}

-----------------------------------------------------------------------------
(* C7 *)

\* the extension of a name: from its last "." on, unless that "." starts or
\* ends the name
ExtOf(name) ==
    LET dots == {i \in 2..(Len(name) - 1) :
                    name[i] = "." /\ \A j \in (i + 1)..Len(name) : name[j] # "."}
    IN IF dots = {} THEN <<>> ELSE SubSeq(name, CHOOSE i \in dots : TRUE, Len(name))

RECURSIVE OffsetOf(_, _)
OffsetOf(bytes, i) == IF i <= 1 THEN 0 ELSE OffsetOf(bytes, i - 1) + ByteWidth(bytes[i - 1])

NulInSniff(bytes) == \E i \in 1..Len(bytes) : bytes[i] = NUL /\ OffsetOf(bytes, i) < SniffLen

\* C7: a file node has content exactly when (read_all, or the file's
\* extension with its dot is in the allow-list, case counting) and no NUL is
\* among the first 1024 bytes and the bytes decode; otherwise content is None.
C7_ContentIff ==
    Done =>
        \A id \in FileNodes :
            heap[id].content.some <=>
                /\ opts.read_all \/ ExtOf(heap[id].name) \in opts.extensions
                /\ ~NulInSniff(files[heap[id].path])
                /\ \A i \in 1..Len(files[heap[id].path]) : files[heap[id].path][i] # BAD

\* C7 witness: read_all with an allow-list that does not hold the file's
\* extension, a NUL beyond the first 1024 bytes, and content present.
C7_Witness ==
    /\ Done /\ opts.read_all
    /\ \E id \in FileNodes :
          /\ ExtOf(heap[id].name) \notin opts.extensions
          /\ Contains(files[heap[id].path], NUL)
          /\ heap[id].content.some

-----------------------------------------------------------------------------
(* C8 *)

\* the lines the options keep of L
Kept(L) ==
    IF opts.head > 0 THEN SubSeq(L, 1, Min(opts.head, Len(L)))
    ELSE IF opts.tail > 0 THEN SubSeq(L, Len(L) - Min(opts.tail, Len(L)) + 1, Len(L))
    ELSE L

\* the lines of a file with the terminators as they are in the file: a line
\* ends after "\n", so also after "\r\n"
RawLines(bytes) == ReadLines(bytes)

\* C8 as stated: the content of a selected text file is the first
\* min(head, |L|) lines, else the last min(tail, |L|) lines, else all lines
\* of the file, L being its lines with their terminators as in the file.
C8_Original ==
    Done =>
        \A id \in FileNodes :
            heap[id].content.some =>
                heap[id].content.text = Concat(Kept(RawLines(files[heap[id].path])))

\* C8 amended: the same with L the lines as text mode reads them, where
\* "\r\n" and a lone "\r" both end a line and are read as "\n".
C8_HeadTail ==
    Done =>
        \A id \in FileNodes :
            heap[id].content.some =>
                heap[id].content.text = Concat(Kept(TextLines(files[heap[id].path])))

\* C8 witness: a file of three lines read with tail = 2, whose content is
\* not the whole file.
C8_Witness ==
    /\ Done
    /\ \E id \in FileNodes :
          /\ heap[id].content.some
          /\ opts.tail = 2
          /\ Len(TextLines(files[heap[id].path])) = 3
          /\ heap[id].content.text # Concat(TextLines(files[heap[id].path]))

-----------------------------------------------------------------------------
(* A GitignoreMatcher on its own: construction, add_patterns, is_ignored *)

\* most layers added to one gmatcher after construction
MaxLayers == 2

\* raw lines as readlines() yields them
RuleFiles ==
    { << <<"*", ".", "l", "o", "g", "\n">>,
         <<"!", "a", "p", "p", ".", "l", "o", "g", "\n">>,
         <<"a", "p", "p", ".", "l", "o", "g", "\n">> >>,
      << <<"#", " ", "c", "\n">>, <<"\n">>, <<" ", "b", "u", "i", "l", "d", "/", " ", "\n">> >>,
      << <<"!", "*", ".", "l", "o", "g", "\n">> >>,
      << <<"/", "s", "r", "c", "/", "*", "*", "/", "u", ".", "p", "y", "\n">>,
         <<"l", "i", "b", "/", "/", "\n">> >>,
      << <<" ", "\n">>, <<" ", "#", "\n">> >>,
      << <<"!", "b", "u", "i", "l", "d", "\n">>, <<"*", "*", "*", ".", "p", "y">> >> }

\* root_path and base_path values tried
MatcherRoots == {<<W>>, <<W, SRC>>}
LayerBases == {<<W>>, <<W, SRC>>, <<W, BUILD>>}

\* the paths is_ignored is asked about
QueryPaths ==
    { <<W, SRC, APP_LOG>>, <<W, SRC, LIB, U_PY>>, <<W, SRC, LIB>>, <<W, BUILD>>,
      <<W, BUILD, OUT_BIN>>, <<W, APP_LOG>>, <<O, EXT, E_PY>> }

InitMatcher ==
    /\ \E root \in MatcherRoots, additional \in RuleFiles \cup {<<>>} :
          gmatcher = NewMatcher(root, additional)
    /\ added = NotAdded
    /\ asked = NotAsked
    /\ cli = NoCommand
    /\ opts = NewInspector(FALSE, <<>>, {}, NoDepth, FALSE, {}, FALSE, 0, 0)
    /\ files = DefaultFiles
    /\ inputs = <<>>
    /\ idx = 1
    /\ heap = InitHeap
    /\ cache = InitCache
    /\ log = {}
    /\ rev = FALSE
    /\ fault = NoFault
    /\ pc = "matcher"
    /\ result = <<>>

\* matcher.add_patterns(base, lines)
AddPatternsStep ==
    /\ pc = "matcher"
    /\ Len(gmatcher.patterns) < MaxLayers
    /\ \E base \in LayerBases, lines \in RuleFiles :
          /\ gmatcher' = AddPatterns(gmatcher, base, lines)
          /\ added' = [set |-> TRUE, base |-> base, lines |-> lines,
                       before |-> gmatcher.patterns]
    /\ asked' = NotAsked
    /\ UNCHANGED <<opts, files, inputs, idx, heap, cache, log, rev, fault, pc, result, cli>>

\* matcher.is_ignored(path)
IsIgnoredStep ==
    /\ pc = "matcher"
    /\ \E path \in QueryPaths :
          asked' = [set |-> TRUE, path |-> path, answer |-> IsIgnored(gmatcher, path)]
    /\ UNCHANGED <<opts, files, inputs, idx, heap, cache, log, rev, fault, pc, result,
                   gmatcher, added, cli>>

NextMatcher == AddPatternsStep \/ IsIgnoredStep

SpecMatcher == InitMatcher /\ [][NextMatcher]_vars

-----------------------------------------------------------------------------
(* C11 *)

\* the rules of the layers that apply to path, in order of addition and then
\* of line, each with the base of its layer
RECURSIVE ApplicableRules(_, _)
ApplicableRules(layers, path) ==
    IF layers = <<>> THEN <<>>
    ELSE (IF IsUnder(path, Head(layers).base)
          THEN [i \in 1..Len(Head(layers).rules) |->
                   [rule |-> Head(layers).rules[i], base |-> Head(layers).base]]
          ELSE <<>>)
         \o ApplicableRules(Tail(layers), path)

\* the positions of the applicable rules that match path
MatchingAt(layers, path) ==
    LET rs == ApplicableRules(layers, path)
    IN {i \in 1..Len(rs) :
          RuleMatches(rs[i].rule, NameOf(path), RelPosix(path, rs[i].base))}

\* the polarity of the last matching rule, FALSE when there is none
LastMatchPolarity(layers, path) ==
    LET rs == ApplicableRules(layers, path)
        at == MatchingAt(layers, path)
    IN IF at = {} THEN FALSE
       ELSE ~rs[CHOOSE i \in at : \A j \in at : j <= i].rule.neg

\* C11: for a path under root_path, is_ignored answers the polarity of the
\* last matching rule, layers taken in order of addition and rules in order
\* within each applicable layer: TRUE when that rule is not negated, FALSE
\* when it is negated or when no rule matches.
C11_LastMatchWins ==
    (asked.set /\ IsUnder(asked.path, gmatcher.root)) =>
        asked.answer = LastMatchPolarity(gmatcher.patterns, asked.path)

\* C11 witness: is_ignored answered TRUE for a path under root_path that a
\* plain rule matches, then a negated rule, then a plain rule again.
C11_Witness ==
    /\ asked.set /\ asked.answer
    /\ IsUnder(asked.path, gmatcher.root)
    /\ LET rs == ApplicableRules(gmatcher.patterns, asked.path)
           at == MatchingAt(gmatcher.patterns, asked.path)
       IN \E i, j, k \in at :
             i < j /\ j < k /\ ~rs[i].rule.neg /\ rs[j].rule.neg /\ ~rs[k].rule.neg

-----------------------------------------------------------------------------
(* C12 *)

\* the layers of a matcher that path lies outside of
ForeignLayers(m, path) == {i \in 1..Len(m.patterns) : ~IsUnder(path, m.patterns[i].base)}

\* m without the layers at the positions drop
RECURSIVE WithoutLayers(_, _, _)
WithoutLayers(layers, drop, i) ==
    IF i > Len(layers) THEN <<>>
    ELSE (IF i \in drop THEN <<>> ELSE <<layers[i]>>) \o WithoutLayers(layers, drop, i + 1)

\* C12: the answer of is_ignored(p) is unchanged when any layers whose base
\* is neither p nor above p are removed, when the rules of such a layer are
\* replaced, and when such a layer is added; and it is FALSE for every p not
\* under root_path.
C12_ForeignLayersInert ==
    asked.set =>
        LET p == asked.path
            foreign == ForeignLayers(gmatcher, p)
        IN /\ ~IsUnder(p, gmatcher.root) => ~asked.answer
           /\ \A drop \in SUBSET foreign :
                 asked.answer =
                    IsIgnored([gmatcher EXCEPT !.patterns = WithoutLayers(@, drop, 1)], p)
           /\ \A i \in foreign : \A lines \in RuleFiles :
                 asked.answer =
                    IsIgnored([gmatcher EXCEPT !.patterns[i].rules = ParseLines(lines)], p)
           /\ \A base \in LayerBases : \A lines \in RuleFiles :
                 ~IsUnder(p, base) =>
                    asked.answer = IsIgnored(AddPatterns(gmatcher, base, lines), p)

\* C12 witness: is_ignored answered FALSE for a path under root_path while
\* the matcher holds a layer of a sibling directory with a plain rule that
\* matches the path's name.
C12_Witness ==
    /\ asked.set /\ ~asked.answer
    /\ IsUnder(asked.path, gmatcher.root)
    /\ \E i \in ForeignLayers(gmatcher, asked.path) :
          \E k \in 1..Len(gmatcher.patterns[i].rules) :
              /\ ~gmatcher.patterns[i].rules[k].neg
              /\ Fnmatch(NameOf(asked.path), gmatcher.patterns[i].rules[k].pat)

-----------------------------------------------------------------------------
(* C18 *)

\* the positions of the lines that are neither blank nor comments, surrounding
\* whitespace aside
RuleLines(lines) ==
    {i \in 1..Len(lines) : Strip(lines[i]) # <<>> /\ Strip(lines[i])[1] # "#"}

\* a line without its leading "!"
Unmarked(line) == IF line[1] = "!" THEN Tail(line) ELSE line

\* text without one trailing "/", and without every trailing "/"
DropOneSlash(t) == IF t # <<>> /\ t[Len(t)] = "/" THEN SubSeq(t, 1, Len(t) - 1) ELSE t
DropSlashes(t) ==
    SubSeq(t, 1, CHOOSE k \in 0..Len(t) :
                    /\ \A j \in (k + 1)..Len(t) : t[j] = "/"
                    /\ (k > 0 => t[k] # "/"))

\* the rules the claim describes, with one trailing "/" removed
RulesAsStated(lines) ==
    LET one(i) == [pat |-> DropOneSlash(Unmarked(Strip(lines[i]))),
                   neg |-> Strip(lines[i])[1] = "!"]
        all == [i \in 1..Len(lines) |-> IF i \in RuleLines(lines) THEN one(i) ELSE <<>>]
    IN Pick(all, RuleLines(lines), 1)

\* the same with every trailing "/" removed
RulesAsParsed(lines) ==
    LET one(i) == [pat |-> DropSlashes(Unmarked(Strip(lines[i]))),
                   neg |-> Strip(lines[i])[1] = "!"]
        all == [i \in 1..Len(lines) |-> IF i \in RuleLines(lines) THEN one(i) ELSE <<>>]
    IN Pick(all, RuleLines(lines), 1)

\* a pattern with every run of "*" reduced to one "*"
RECURSIVE CollapseStars(_)
CollapseStars(pat) ==
    IF Len(pat) < 2 THEN pat
    ELSE IF pat[1] = "*" /\ pat[2] = "*" THEN CollapseStars(Tail(pat))
    ELSE <<pat[1]>> \o CollapseStars(Tail(pat))

\* every rule of the layers matches as the rule with its "*" runs collapsed
StarRunsAsOneStar(layers) ==
    \A i \in 1..Len(layers) : \A k \in 1..Len(layers[i].rules) : \A q \in QueryPaths :
        IsUnder(q, layers[i].base) =>
            LET r == layers[i].rules[k]
            IN RuleMatches(r, NameOf(q), RelPosix(q, layers[i].base))
                 = RuleMatches([r EXCEPT !.pat = CollapseStars(@)],
                               NameOf(q), RelPosix(q, layers[i].base))

\* C18 as stated: add_patterns keeps the layers it found and appends one
\* layer tagged basePath with one rule per line that is neither blank nor a
\* comment, negated exactly for a leading "!", the pattern being the line
\* without that "!" and without a trailing "/"; "**" matches as "*".
C18_Original ==
    added.set =>
        /\ gmatcher.patterns =
              Append(added.before, [base |-> added.base, rules |-> RulesAsStated(added.lines)])
        /\ StarRunsAsOneStar(gmatcher.patterns)

\* C18 amended: add_patterns keeps the layers it found; when at least one
\* line, stripped of surrounding whitespace, is neither empty nor starts with
\* "#", it appends one layer tagged basePath with one rule per such line in
\* line order, negated exactly for a leading "!", the pattern being the
\* stripped line without that "!" and without any trailing "/"; otherwise it
\* appends nothing; "**" matches as "*".
C18_AddPatterns ==
    added.set =>
        /\ gmatcher.patterns =
              IF RuleLines(added.lines) = {} THEN added.before
              ELSE Append(added.before,
                          [base |-> added.base, rules |-> RulesAsParsed(added.lines)])
        /\ StarRunsAsOneStar(gmatcher.patterns)

\* C18 witness: add_patterns called on a matcher that holds a layer, with a
\* comment line, a blank line and a directory pattern, and a layer added.
C18_Witness ==
    /\ added.set
    /\ added.before # <<>>
    /\ Len(gmatcher.patterns) = Len(added.before) + 1
    /\ Len(added.lines) = 3 /\ Cardinality(RuleLines(added.lines)) = 1
    /\ \E i \in RuleLines(added.lines) : Contains(added.lines[i], "/")

-----------------------------------------------------------------------------
(* C13 *)

\* the depth of node path n in the walk of directory input P: P is at 0
DepthIn(P, n) == Len(n) - Len(P)

\* the directory inputs above node path n
WalkedFrom(n) == {P \in ExistingInputs : IsDir(P) /\ InParents(P, n)}

\* C13 as stated: with max_depth M set, every node that a walk produced
\* (it is below a directory input, and is neither an input nor above one)
\* is at depth M or less in the walk of some directory input.
C13_Original ==
    (Done /\ opts.max_depth.set) =>
        \A id \in ForestIds :
            LET n == heap[id].path
            IN ~AtOrAboveInput(n) =>
                  \E P \in WalkedFrom(n) : DepthIn(P, n) <= opts.max_depth.val

\* C13 amended: with max_depth M set, every directory node a walk produced
\* is at depth M or less, and every file node at depth M + 1 or less: the
\* files of a directory at depth M are kept.
C13_DepthLimit ==
    (Done /\ opts.max_depth.set) =>
        \A id \in ForestIds :
            LET n == heap[id].path
            IN ~AtOrAboveInput(n) =>
                  \E P \in WalkedFrom(n) :
                      DepthIn(P, n) <= opts.max_depth.val + (IF heap[id].is_dir THEN 0 ELSE 1)

\* C13 witness: /w walked with max_depth 1: src (depth 1) and src/app.py
\* (depth 2) are returned, src/lib (depth 2) is not.
C13_Witness ==
    /\ Done /\ opts.max_depth = Depth(1)
    /\ inputs = <<Cwd>>
    /\ {<<W, SRC>>, <<W, SRC, APP_PY>>} \subseteq ForestPaths
    /\ <<W, SRC, LIB>> \notin ForestPaths

-----------------------------------------------------------------------------
(* Walks on a host where one directory fails *)

\* most entries handled before a listing fails
MaxFaultAt == 1

FaultDirs == {<<W, SRC>>, <<W, SRC, LIB>>, <<W, BUILD>>}

FaultChoices ==
    {ListingFault(d, k) : d \in FaultDirs, k \in 0..MaxFaultAt}
        \cup {SearchFault(d) : d \in FaultDirs}

FaultInputs == {<<W>>, <<W, SRC>>, <<W, SRC, LIB, U_PY>>, <<W, ZZ>>, <<O, EXT>>}

FaultOptions ==
    { NewInspector(FALSE, <<>>, {}, NoDepth, nogit, {<<"p", "y">>}, FALSE, 0, 0) :
        nogit \in BOOLEAN }

InitFault ==
    /\ opts \in FaultOptions
    /\ files = DefaultFiles
    /\ inputs \in SeqsUpTo(FaultInputs, MaxInputs)
    /\ idx = 1
    /\ heap = InitHeap
    /\ cache = InitCache
    /\ log = {}
    /\ rev \in BOOLEAN
    /\ fault \in FaultChoices
    /\ pc = "loop"
    /\ result = <<>>
    /\ gmatcher = NewMatcher(<<>>, <<>>) /\ added = NotAdded /\ asked = NotAsked
    /\ cli = NoCommand

SpecFault == InitFault /\ [][Next]_vars

-----------------------------------------------------------------------------
(* C14 *)

\* the listing of the failing directory does fail: there is an entry, or the
\* listing itself, to fail at
FailureOccurs == fault.at = 0 \/ fault.at < Len(Iterdir(fault.dir, rev))

\* the entries of the failing directory that its loop never reaches
Unreached ==
    LET all == Iterdir(fault.dir, rev)
    IN IF FailureOccurs THEN {all[j] : j \in (fault.at + 1)..Len(all)} ELSE {}

\* node path n is on the way to or below an input that lies at or below c
ReachedThroughInput(n, c) ==
    \E P \in ExistingInputs : IsUnder(P, c) /\ (IsUnder(n, P) \/ IsUnder(P, n))

\* the node paths of the forest the same run returns on a host without fault
UnfailingPaths ==
    LET r == Inspect(opts, files, inputs, Host(rev, NoFault))
    IN {r.heap[id].path : id \in Below(r.heap, r.result)}

\* C14: when the listing of a directory fails after some entries, inspect
\* still returns; the forest holds what the run without the failure holds,
\* less what lies at or below the entries the failing loop never reached
\* (unless another input reaches it): so the failing directory keeps its
\* node with the children gathered before the error, and its siblings and
\* the later inputs are processed.  A warning is logged for the directory.
C14_ListingErrorIsolated ==
    (fault.kind = "listing") =>
        /\ pc # "raised"
        /\ Done =>
              /\ ForestPaths =
                    {n \in UnfailingPaths :
                        \A c \in Unreached : IsUnder(n, c) => ReachedThroughInput(n, c)}
              /\ ( /\ FailureOccurs
                    /\ fault.dir \in ForestPaths
                    /\ \E P \in ExistingInputs : IsDir(P) /\ IsUnder(fault.dir, P) )
                    => <<"directory access error", fault.dir>> \in log

\* C14 witness: /w/src, whose listing fails after one entry, then /o/ext:
\* src is returned with one child, and so is /o/ext/e.py.
C14_Witness ==
    /\ Done
    /\ fault = ListingFault(<<W, SRC>>, 1) /\ FailureOccurs
    /\ inputs = << <<W, SRC>>, <<O, EXT>> >>
    /\ \E id \in ForestIds : heap[id].path = <<W, SRC>> /\ Len(heap[id].children) = 1
    /\ <<O, EXT, E_PY>> \in ForestPaths


\* ---------------------------------------------------------------------------
\* The command line (cli.py) and the renderers (renderers.py)
\* ---------------------------------------------------------------------------

\* valid_formats                                           (cli.py 112)
valid_formats == {"xml", "json", "compact", "show"}

\* Variant of the parameter validation that tests the format only
OptionsRejected_FormatOnly(head, tail, format) == format \notin valid_formats

\* the parameter validation of main: both truncation options positive, or a
\* format outside valid_formats, ends the run                (cli.py 105-119)
OptionsRejected(head, tail, format) ==
    \/ head > 0 /\ tail > 0
    \/ format \notin valid_formats

\* get_renderer: the renderer for a format name, XML by default
GetRenderer(format_name) ==
    IF format_name = "json" THEN "json"
    ELSE IF format_name = "compact" THEN "compact"
    ELSE IF format_name = "show" THEN "show"
    ELSE "xml"

\* the keyword parameters render declares besides nodes and output: none, for
\* Renderer, JSONRenderer, CompactJSONRenderer, XMLRenderer and ShowRenderer
RenderKeywords(renderer) == {}

\* the names of a set of keyword arguments, each a <<name, value>> pair
Keywords(kwargs) == {kv[1] : kv \in kwargs}

\* renderer.render(nodes, output, **kwargs): a keyword the method does not
\* declare raises TypeError before its body runs; otherwise the document is
\* written from the nodes alone (JSON: {"results": [...]}, compact: the list,
\* XML: <results> elements, show: the files' blocks)
Render(renderer, nodes, kwargs) ==
    IF Keywords(kwargs) \subseteq RenderKeywords(renderer)
    THEN [raised |-> FALSE,
          document |-> [written |-> TRUE, renderer |-> renderer, meta |-> {},
                        results |-> nodes]]
    ELSE [raised |-> TRUE, document |-> NoDocument]

\* render_kwargs: the working directory and the repository root found from it
RenderKwargs ==
    { <<"absolute_path", [found |-> TRUE, path |-> Cwd]>>,
      <<"repository_root", FindGitRoot(Cwd)>> }

\* the options a command line gives the Inspector (cli.py 138-149)
CliOptions ==
    { NewInspector(FALSE, <<>>, {}, NoDepth, nogit, {}, FALSE, h, t) :
        nogit \in BOOLEAN, h \in 0..MaxLinesOpt, t \in 0..MaxLinesOpt }

\* the --format values tried: the four valid ones and one that is not
CliFormats == valid_formats \cup {"yaml"}

\* the PATHS arguments tried, without wildcards (glob leaves such a path as it
\* is, present or not: cli.py 123-131); <<>> stands for no argument at all
CliPaths ==
    { <<>>, << <<W, SRC>> >>, << <<W, ZZ>> >>, << <<W, SRC, LIB, U_PY>>, <<O, EXT>> >> }

InitCli ==
    /\ opts \in CliOptions
    /\ files = DefaultFiles
    /\ inputs \in CliPaths
    /\ idx = 1
    /\ heap = InitHeap
    /\ cache = InitCache
    /\ log = {}
    /\ rev \in BOOLEAN
    /\ fault \in {NoFault, SearchFault(<<W, SRC>>)}
    /\ pc = "validate"
    /\ result = <<>>
    /\ gmatcher = NewMatcher(<<>>, <<>>) /\ added = NotAdded /\ asked = NotAsked
    /\ \E f \in CliFormats :
          cli = [format |-> f, exit |-> -1, scanned |-> FALSE, document |-> NoDocument]

\* main up to the scan: default path, then the parameter validation (cli.py 99-135)
CliValidate ==
    /\ pc = "validate"
    /\ inputs' = IF inputs = <<>> THEN <<Cwd>> ELSE inputs
    /\ IF OptionsRejected(opts.head, opts.tail, cli.format)
       THEN /\ cli' = [cli EXCEPT !.exit = 1]
            /\ pc' = "exit"
       ELSE /\ cli' = cli
            /\ pc' = "scan"
    /\ UNCHANGED <<opts, files, idx, heap, cache, log, rev, fault, result>>
    /\ UNCHANGED matcherVars

\* inspector.inspect(resolved_paths); any exception ends the run with code 1
\* (cli.py 138-157)
CliScan ==
    /\ pc = "scan"
    /\ \E r \in {Inspect(opts, files, inputs, CurHost)} :
          /\ heap' = r.heap
          /\ log' = r.log
          /\ result' = r.result
          /\ cli' = [cli EXCEPT !.scanned = TRUE, !.exit = IF r.raised THEN 1 ELSE @]
          /\ pc' = IF r.raised THEN "exit" ELSE "render"
    /\ UNCHANGED <<opts, files, inputs, idx, cache, rev, fault>>
    /\ UNCHANGED matcherVars

\* renderer.render(nodes, sys.stdout, **render_kwargs); any exception ends the
\* run with code 1, a normal return with code 0 (cli.py 160-183)
CliRender ==
    /\ pc = "render"
    /\ LET r == Render(GetRenderer(cli.format), result, RenderKwargs)
       IN /\ cli' = [cli EXCEPT !.document = r.document,
                                !.exit = IF r.raised THEN 1 ELSE 0]
          /\ pc' = "exit"
    /\ UNCHANGED <<opts, files, inputs, idx, heap, cache, log, rev, fault, result>>
    /\ UNCHANGED matcherVars

NextCli == CliValidate \/ CliScan \/ CliRender

SpecCli == InitCli /\ [][NextCli]_vars

\* the options of the run are valid, as the claims word it
BothTruncations == opts.head > 0 /\ opts.tail > 0
KnownFormat == cli.format \in {"xml", "json", "compact", "show"}

\* C15: a command-line run with valid options whose scan succeeds ends with
\* exit code 0, and its rendered document carries absolute_path and
\* repository_root.
C15_MetadataRendered ==
    (pc = "exit" /\ ~BothTruncations /\ KnownFormat /\ fault = NoFault) =>
        /\ cli.exit = 0
        /\ cli.document.written
        /\ Keywords(cli.document.meta) = {"absolute_path", "repository_root"}
        /\ cli.document.meta = RenderKwargs

\* C16: when head and tail are both positive, or the format is not one of
\* xml, json, compact, show, the run ends with exit code 1 with no scan made
\* and no document rendered; inspect is never invoked with both truncation
\* options positive.
C16_InvalidOptionsRejected ==
    /\ (BothTruncations \/ ~KnownFormat) =>
          /\ pc \in {"validate", "exit"}
          /\ pc = "exit" => cli.exit = 1
          /\ ~cli.scanned
          /\ ~cli.document.written
          /\ result = <<>> /\ heap = InitHeap /\ log = {}
    /\ cli.scanned => ~BothTruncations

\* C16 witness: a run given --head and --tail together with a valid format
\* has ended with exit code 1
C16_Witness ==
    /\ pc = "exit"
    /\ BothTruncations /\ cli.format = "json"
    /\ cli.exit = 1 /\ ~cli.scanned

\* ---------------------------------------------------------------------------
\* The order of the input paths (core.py 151-201)
\* ---------------------------------------------------------------------------

\* the orderings of a list
Orderings(s) ==
    LET n == Len(s)
        bij == {f \in [1..n -> 1..n] : \A i, j \in 1..n : f[i] = f[j] => i = j}
    IN {[k \in 1..n |-> s[f[k]]] : f \in bij}

\* the absolute paths of the file nodes of a forest
FilePathsOf(h, ids) == {h[id].path : id \in {i \in Below(h, ids) : ~h[i].is_dir}}

\* the file paths inspect returns for a single input
FilePathsAlone(path) ==
    LET r == Inspect(opts, files, <<path>>, CurHost) IN FilePathsOf(r.heap, r.result)

\* C19: the set of file paths in the returned forest is the same for every
\* ordering of the input list, and holds every file that the walk of a
\* directory input gathers.
C19_InputOrderIrrelevant ==
    Done =>
        /\ \A paths \in Orderings(inputs) :
              LET r == Inspect(opts, files, paths, CurHost)
              IN FilePathsOf(r.heap, r.result) = FilePathsOf(heap, result)
        /\ \A k \in 1..Len(inputs) :
              IsDir(inputs[k]) => FilePathsAlone(inputs[k]) \subseteq FilePathsOf(heap, result)

\* ---------------------------------------------------------------------------
\* The layers of the matcher inspect builds (core.py 157-177)
\* ---------------------------------------------------------------------------

\* the --ignore patterns tried
CliPatternChoices ==
    { <<>>,
      << <<"*", ".", "l", "o", "g">> >>,
      << <<"!", "u", ".", "p", "y">> >>,
      << <<"#", "x">> >> }

\* the contents tried for the repository root's .gitignore
RootIgnoreTexts ==
    { <<>>,
      <<"*", ".", "l", "o", "g", "\n">>,
      <<"!", "a", "p", "p", ".", "l", "o", "g", "\n">>,
      <<"*", ".", "p", "y", "\n", "!", "*", ".", "l", "o", "g", "\n">> }

\* the contents tried for the global ignore file, when the host has one
GlobalIgnoreTexts ==
    { <<"*", ".", "p", "y", "\n">>,
      <<"!", "*", ".", "l", "o", "g", "\r", "\n", "l", "i", "b", "/">>,
      <<"\n">> }

\* the run's files: the root's .gitignore and, if any, the global ignore file
LayerFiles ==
    LET withRoot == {[DefaultFiles EXCEPT ![<<W, GITIGNORE>>] = t] : t \in RootIgnoreTexts}
    IN withRoot \cup {(ExcludesFile :> g) @@ f : g \in GlobalIgnoreTexts, f \in withRoot}

LayerOptions ==
    { NewInspector(FALSE, pats, {}, NoDepth, nogit, {}, FALSE, 0, 0) :
        pats \in CliPatternChoices, nogit \in BOOLEAN }

\* the input paths a matcher is built for: inside the repository, a file
\* and a directory, and outside any repository
LayerInputs == {<<W, SRC>>, <<W, SRC, LIB, U_PY>>, <<O, EXT>>}

InitLayers ==
    /\ opts \in LayerOptions
    /\ files \in LayerFiles
    /\ inputs \in {<<p>> : p \in LayerInputs}
    /\ idx = 1
    /\ heap = InitHeap
    /\ cache = InitCache
    /\ log = {}
    /\ rev = FALSE
    /\ fault = NoFault
    /\ pc = "build"
    /\ result = <<>>
    /\ gmatcher = NewMatcher(<<>>, <<>>) /\ added = NotAdded /\ asked = NotAsked
    /\ cli = NoCommand

\* the construction of the matcher for the input path (core.py 157-177)
BuildMatcherStep ==
    /\ pc = "build"
    /\ gmatcher' = BuildMatcher(opts, files, inputs[idx])
    /\ pc' = "matcher"
    /\ UNCHANGED <<opts, files, inputs, idx, heap, cache, log, rev, fault, result,
                   added, asked, cli>>

NextLayers == BuildMatcherStep \/ IsIgnoredStep

SpecLayers == InitLayers /\ [][NextLayers]_vars

\* the layer a list of lines yields: none when no line holds a rule
LayerOf(base, lines) ==
    IF ParseLines(lines) = <<>> THEN <<>>
    ELSE << [base |-> base, rules |-> ParseLines(lines)] >>

\* the three sources of rules of the matcher built for the input path
CliLayer == LayerOf(gmatcher.root, opts.ignore_patterns)

GlobalLayer ==
    LET g == GlobalGitignore(files) IN IF g.found THEN LayerOf(g.base, g.lines) ELSE <<>>

RootLayer ==
    LET git_root == FindGitRoot(inputs[idx])
    IN IF git_root.found /\ IsFile(Append(git_root.path, GITIGNORE))
       THEN LayerOf(git_root.path, TextLines(files[Append(git_root.path, GITIGNORE)]))
       ELSE <<>>

\* the matcher has been built with ignore-file filtering enabled
Built == pc = "matcher" /\ opts.use_gitignore

\* C17 as stated: the layers are the global rules, then the root's ignore
\* file, then the command line's patterns, and is_ignored answers by the last
\* matching rule in that order.
C17_Original ==
    Built =>
        /\ gmatcher.patterns = GlobalLayer \o RootLayer \o CliLayer
        /\ (asked.set /\ IsUnder(asked.path, gmatcher.root)) =>
              asked.answer = LastMatchPolarity(GlobalLayer \o RootLayer \o CliLayer, asked.path)

\* C17: in the matcher built for an input path with ignore-file filtering
\* enabled, the layers are the command line's patterns first, then the global
\* ignore file's rules, then the repository root's ignore file, each present
\* only if it holds a rule; is_ignored answers by the last matching rule in
\* that order, so a rule of the global or root ignore file overrides a
\* command-line pattern.
C17_LayerOrder ==
    Built =>
        /\ gmatcher.patterns = CliLayer \o GlobalLayer \o RootLayer
        /\ (asked.set /\ IsUnder(asked.path, gmatcher.root)) =>
              asked.answer = LastMatchPolarity(CliLayer \o GlobalLayer \o RootLayer, asked.path)

\* C17 witness: the matcher holds the three layers, and a path the command
\* line's *.log ignores is answered not ignored because the root's ignore
\* file negates it.
C17_Witness ==
    /\ Built
    /\ Len(CliLayer) = 1 /\ Len(GlobalLayer) = 1 /\ Len(RootLayer) = 1
    /\ opts.ignore_patterns = << <<"*", ".", "l", "o", "g">> >>
    /\ files[<<W, GITIGNORE>>] = <<"!", "a", "p", "p", ".", "l", "o", "g", "\n">>
    /\ asked.set /\ asked.path = <<W, SRC, APP_LOG>> /\ ~asked.answer

====
